---- MODULE Spec2Model ----
(***************************************************************************)
(* A model of huey's theme compiler: the colour arithmetic of color.rs     *)
(* (f32 arithmetic modelled bit for bit), the palette resolver of          *)
(* format.rs and the highlight compiler of highlight.rs.                   *)
(*                                                                         *)
(* Strings are sequences of one-character strings, so that prefix tests,   *)
(* splitting, trimming and number parsing are computed as the code does.   *)
(***************************************************************************)
EXTENDS Integers, Sequences, FiniteSets, TLC

(***************************************************************************)
(* f32: IEEE-754 binary32, round to nearest, ties to even.                 *)
(* A finite value is (-1)^sg * m * 2^e with m = 0 or 2^23 <= m < 2^24.     *)
(* Zero is kept unsigned (-0.0 == 0.0 in every comparison the code makes). *)
(* Magnitudes stay in the normal range for the inputs drawn below, so      *)
(* subnormal results are not modelled; overflow gives an infinity.         *)
(***************************************************************************)
Pow2(n) == 2 ^ n

F32Zero == [k |-> "fin", sg |-> 0, m |-> 0, e |-> 0]

F32NaN == [k |-> "nan", sg |-> 0, m |-> 0, e |-> 0]

F32Inf(sg) == [k |-> "inf", sg |-> sg, m |-> 0, e |-> 0]

RECURSIVE BitLen(_)
BitLen(n) == IF n = 0 THEN 0 ELSE 1 + BitLen(n \div 2)

F32Pack(sg, m, e) ==
    IF e + 23 > 127 THEN F32Inf(sg) ELSE [k |-> "fin", sg |-> sg, m |-> m, e |-> e]

\* Rounding a mantissa of more than 24 bits: q is its top 24 bits, r the
\* bits dropped, half the weight of the first dropped bit; ties go to even.
RoundCarry(sg, q1, e) ==
    IF q1 = Pow2(24) THEN F32Pack(sg, Pow2(23), e + 1) ELSE F32Pack(sg, q1, e)

RoundNearest(sg, q, r, half, e, sticky) ==
    RoundCarry(sg,
               IF r > half \/ (r = half /\ (sticky \/ q % 2 = 1)) THEN q + 1 ELSE q,
               e)

RoundBits(sg, M, E, sticky, n) ==
    IF n <= 24 THEN F32Pack(sg, M * Pow2(24 - n), E - (24 - n))
    ELSE RoundNearest(sg, M \div Pow2(n - 24), M % Pow2(n - 24), Pow2(n - 25),
                      E + (n - 24), sticky)

\* The f32 nearest to (-1)^sg * (M + sticky) * 2^E, where sticky stands for
\* a non-zero remainder below the last bit of M.
F32Round(sg, M, E, sticky) ==
    IF M = 0 THEN F32Zero ELSE RoundBits(sg, M, E, sticky, BitLen(M))

\* `n as f32` for an integer of magnitude below 2^31.
F32FromInt(n) ==
    IF n < 0 THEN F32Round(1, -n, 0, FALSE) ELSE F32Round(0, n, 0, FALSE)

F32Neg(a) == IF a.k = "nan" \/ (a.k = "fin" /\ a.m = 0) THEN a ELSE [a EXCEPT !.sg = 1 - a.sg]

\* Magnitude order of two finite values.
MagLt(a, b) ==
    IF a.m = 0 THEN b.m # 0
    ELSE IF b.m = 0 THEN FALSE
    ELSE a.e < b.e \/ (a.e = b.e /\ a.m < b.m)

\* a < b, false when either is NaN.
F32Lt(a, b) ==
    IF a.k = "nan" \/ b.k = "nan" THEN FALSE
    ELSE IF a.k = "inf" THEN a.sg = 1 /\ ~(b.k = "inf" /\ b.sg = 1)
    ELSE IF b.k = "inf" THEN b.sg = 0
    ELSE IF a.sg # b.sg THEN a.sg = 1
    ELSE IF a.sg = 0 THEN MagLt(a, b) ELSE MagLt(b, a)

\* a == b, false when either is NaN.
F32Eq(a, b) == a.k # "nan" /\ b.k # "nan" /\ a = b

F32Le(a, b) == F32Lt(a, b) \/ F32Eq(a, b)

\* Sum of two finite non-zero values: the smaller is aligned under the
\* larger with three guard bits, the bits lost jammed into the last one.
JamBit(s, rem) == IF rem # 0 /\ s % 2 = 0 THEN s + 1 ELSE s

Jam(x, d) == IF d > 27 THEN 1 ELSE JamBit(x \div Pow2(d), x % Pow2(d))

AddMantissas(big, small, mb, ms) ==
    F32Round(big.sg, IF big.sg = small.sg THEN mb + ms ELSE mb - ms, big.e - 3, FALSE)

AddAligned(big, small) ==
    AddMantissas(big, small, big.m * 8, Jam(small.m * 8, big.e - small.e))

AddFinite(a, b) == IF MagLt(a, b) THEN AddAligned(b, a) ELSE AddAligned(a, b)

F32Add(a, b) ==
    IF a.k = "nan" \/ b.k = "nan" THEN F32NaN
    ELSE IF a.k = "inf"
         THEN IF b.k = "inf" /\ b.sg # a.sg THEN F32NaN ELSE a
    ELSE IF b.k = "inf" THEN b
    ELSE IF a.m = 0 THEN b
    ELSE IF b.m = 0 THEN a
    ELSE AddFinite(a, b)

F32Sub(a, b) == F32Add(a, F32Neg(b))

\* Product of two finite non-zero values: the 48-bit product of the
\* mantissas from 12-bit halves (hi and low are its upper and lower 24
\* bits, low still holding its carry), the top 30 bits kept, the rest
\* sticky.
MulHiLow(a, b, hi, low) ==
    F32Round((a.sg + b.sg) % 2,
             (hi + low \div Pow2(24)) * 64 + (low % Pow2(24)) \div Pow2(18),
             a.e + b.e + 18,
             low % Pow2(18) # 0)

MulParts(a, b, hh, mid, ll) ==
    MulHiLow(a, b, hh + mid \div 4096, (mid % 4096) * 4096 + ll)

MulFinite(a, b) ==
    MulParts(a, b,
             (a.m \div 4096) * (b.m \div 4096),
             (a.m \div 4096) * (b.m % 4096) + (a.m % 4096) * (b.m \div 4096),
             (a.m % 4096) * (b.m % 4096))

F32Mul(a, b) ==
    IF a.k = "nan" \/ b.k = "nan" THEN F32NaN
    ELSE IF a.k = "inf" \/ b.k = "inf"
         THEN IF (a.k = "fin" /\ a.m = 0) \/ (b.k = "fin" /\ b.m = 0) THEN F32NaN
              ELSE F32Inf((a.sg + b.sg) % 2)
    ELSE IF a.m = 0 \/ b.m = 0 THEN F32Zero
    ELSE MulFinite(a, b)

\* n more quotient bits of rem / d by long division: <<quotient, remainder>>.
RECURSIVE DivBits(_, _, _, _)
DivBits(q, rem, d, n) ==
    IF n = 0 THEN <<q, rem>>
    ELSE IF 2 * rem >= d THEN DivBits(2 * q + 1, 2 * rem - d, d, n - 1)
    ELSE DivBits(2 * q, 2 * rem, d, n - 1)

DivPack(a, b, qr) == F32Round((a.sg + b.sg) % 2, qr[1], a.e - b.e - 26, qr[2] # 0)

DivFinite(a, b) == DivPack(a, b, DivBits(a.m \div b.m, a.m % b.m, b.m, 26))

F32Div(a, b) ==
    IF a.k = "nan" \/ b.k = "nan" THEN F32NaN
    ELSE IF a.k = "inf" THEN IF b.k = "inf" THEN F32NaN ELSE F32Inf((a.sg + b.sg) % 2)
    ELSE IF b.k = "inf" THEN F32Zero
    ELSE IF b.m = 0 THEN IF a.m = 0 THEN F32NaN ELSE F32Inf((a.sg + b.sg) % 2)
    ELSE IF a.m = 0 THEN F32Zero
    ELSE DivFinite(a, b)

\* f32::max and f32::min on values that are never NaN here.
\* f32::max and f32::min: a NaN argument yields the other argument.
F32Max(a, b) == IF a.k = "nan" \/ F32Lt(a, b) THEN b ELSE a

F32Min(a, b) == IF a.k = "nan" \/ F32Lt(b, a) THEN b ELSE a

\* f32::clamp: a NaN stays a NaN.
F32Clamp(x, lo, hi) == IF F32Lt(x, lo) THEN lo ELSE IF F32Lt(hi, x) THEN hi ELSE x

\* (lo..=hi).contains(&x): false for a NaN.
F32Contains(lo, hi, x) == F32Le(lo, x) /\ F32Le(x, hi)

\* `x.round() as u8`: round half away from zero, then the saturating cast
\* (NaN and negatives give 0, anything above 255 gives 255).
SaturateU8(i) == IF i > 255 THEN 255 ELSE i

RoundHalfUp(i, twice_frac, p) == SaturateU8(IF twice_frac >= p THEN i + 1 ELSE i)

F32RoundU8(x) ==
    IF x.k = "nan" THEN 0
    ELSE IF x.sg = 1 THEN 0
    ELSE IF x.k = "inf" THEN 255
    ELSE IF x.m = 0 THEN 0
    ELSE IF x.e >= 0 THEN 255
    ELSE IF x.e < -25 THEN 0
    ELSE RoundHalfUp(x.m \div Pow2(-x.e), 2 * (x.m % Pow2(-x.e)), Pow2(-x.e))

\* `x as u8`: truncation toward zero, then the saturating cast.
F32TruncU8(x) ==
    IF x.k = "nan" THEN 0
    ELSE IF x.sg = 1 THEN 0
    ELSE IF x.k = "inf" THEN 255
    ELSE IF x.m = 0 THEN 0
    ELSE IF x.e >= 0 THEN 255
    ELSE IF x.e < -24 THEN 0
    ELSE SaturateU8(x.m \div Pow2(-x.e))

(***************************************************************************)
(* Results: Ok(v) and Err(e), as Rust's Result; `?` returns the first Err. *)
(***************************************************************************)
Ok(v) == [ok |-> TRUE, v |-> v]

Err(e) == [ok |-> FALSE, e |-> e]

(***************************************************************************)
(* color.rs: the colour model.                                             *)
(***************************************************************************)
\* The f32 literals of color.rs.
F32One == [k |-> "fin", sg |-> 0, m |-> 8388608, e |-> -23]

F32Two == [k |-> "fin", sg |-> 0, m |-> 8388608, e |-> -22]

F32Three == [k |-> "fin", sg |-> 0, m |-> 12582912, e |-> -22]

F32Four == [k |-> "fin", sg |-> 0, m |-> 8388608, e |-> -21]

F32Six == [k |-> "fin", sg |-> 0, m |-> 12582912, e |-> -21]

F32Half == [k |-> "fin", sg |-> 0, m |-> 8388608, e |-> -24]

F32_255 == [k |-> "fin", sg |-> 0, m |-> 16711680, e |-> -16]

F32_360 == [k |-> "fin", sg |-> 0, m |-> 11796480, e |-> -15]

RgbColor_new(r, g, b) == [t |-> "Rgb", r |-> r, g |-> g, b |-> b]

Hsl(h, s, l) == [t |-> "Hsl", hue |-> h, saturation |-> s, lightness |-> l]

HslColor_new(hue, saturation, lightness) ==
    IF ~F32Contains(F32Zero, F32_360, hue)
    THEN Err([kind |-> "HslColorError::Hue", found |-> hue])
    ELSE IF ~F32Contains(F32Zero, F32One, saturation)
    THEN Err([kind |-> "HslColorError::Saturation", found |-> saturation])
    ELSE IF ~F32Contains(F32Zero, F32One, lightness)
    THEN Err([kind |-> "HslColorError::Lightness", found |-> lightness])
    ELSE Ok(Hsl(F32Div(hue, F32_360), saturation, lightness))

HslColor_adjust(self, saturation, lightness) ==
    Hsl(self.hue,
        F32Clamp(F32Add(self.saturation, saturation), F32Zero, F32One),
        F32Clamp(F32Add(self.lightness, lightness), F32Zero, F32One))

HslColor_lighten(self, amount) ==
    Hsl(self.hue, self.saturation,
        F32Clamp(F32Add(self.lightness, amount), F32Zero, F32One))

\* A darken that adds the amount.
HslColor_darken_adds(self, amount) ==
    Hsl(self.hue, self.saturation,
        F32Clamp(F32Add(self.lightness, amount), F32Zero, F32One))

HslColor_darken(self, amount) ==
    Hsl(self.hue, self.saturation,
        F32Clamp(F32Sub(self.lightness, amount), F32Zero, F32One))

\* hue_to_rgb: t is wrapped into [0, 1], then folded.
hue_fold(p, q, t) ==
    IF F32Lt(t, F32Div(F32One, F32Six))
    THEN F32Add(p, F32Mul(F32Mul(F32Sub(q, p), F32Six), t))
    ELSE IF F32Lt(t, F32Div(F32One, F32Two))
    THEN q
    ELSE IF F32Lt(t, F32Div(F32Two, F32Three))
    THEN F32Add(p, F32Mul(F32Mul(F32Sub(q, p), F32Sub(F32Div(F32Two, F32Three), t)),
                          F32Six))
    ELSE p

wrap_above(t) == IF F32Lt(F32One, t) THEN F32Sub(t, F32One) ELSE t

wrap_below(t) == IF F32Lt(t, F32Zero) THEN F32Add(t, F32One) ELSE t

\* The fold applied to t as given, without wrapping it into [0, 1].
hue_to_rgb_unwrapped(p, q, t) == hue_fold(p, q, t)

hue_to_rgb(p, q, t) == hue_fold(p, q, wrap_above(wrap_below(t)))

\* to_rgb_color: q, then p, then the three channels.
Gray(v) == RgbColor_new(v, v, v)

hsl_channels(h, p, q) ==
    RgbColor_new(
        F32RoundU8(F32Mul(hue_to_rgb(p, q, F32Add(h, F32Div(F32One, F32Three))), F32_255)),
        F32RoundU8(F32Mul(hue_to_rgb(p, q, h), F32_255)),
        F32RoundU8(F32Mul(hue_to_rgb(p, q, F32Sub(h, F32Div(F32One, F32Three))), F32_255)))

hsl_with_q(h, l, q) == hsl_channels(h, F32Sub(F32Mul(F32Two, l), q), q)

HslColor_to_rgb_color(self) ==
    IF F32Eq(self.saturation, F32Zero)
    THEN Gray(F32RoundU8(F32Mul(self.lightness, F32_255)))
    ELSE hsl_with_q(self.hue, self.lightness,
                    IF F32Lt(self.lightness, F32Half)
                    THEN F32Mul(self.lightness, F32Add(F32One, self.saturation))
                    ELSE F32Sub(F32Add(self.lightness, self.saturation),
                                F32Mul(self.lightness, self.saturation)))

\* to_hsl_color: the channels as fractions, their extremes, then l, d, s, h.
hsl_chromatic(r, g, b, max, min, l, d) ==
    Hsl(F32Div(IF F32Eq(r, max)
               THEN F32Add(F32Div(F32Sub(g, b), d),
                           IF F32Lt(g, b) THEN F32Six ELSE F32Zero)
               ELSE IF F32Eq(g, max)
               THEN F32Add(F32Div(F32Sub(b, r), d), F32Two)
               ELSE IF F32Eq(b, max)
               THEN F32Add(F32Div(F32Sub(r, g), d), F32Four)
               ELSE l,
               F32Six),
        IF F32Lt(F32Half, l)
        THEN F32Div(d, F32Sub(F32Sub(F32Two, max), min))
        ELSE F32Div(d, F32Add(max, min)),
        l)

hsl_from_extremes(r, g, b, max, min) ==
    IF F32Eq(max, min)
    THEN Hsl(F32Zero, F32Zero, F32Div(F32Add(max, min), F32Two))
    ELSE hsl_chromatic(r, g, b, max, min,
                       F32Div(F32Add(max, min), F32Two), F32Sub(max, min))

hsl_from_fractions(r, g, b) ==
    hsl_from_extremes(r, g, b, F32Max(F32Max(r, g), b), F32Min(F32Min(r, g), b))

RgbColor_to_hsl_color(self) ==
    hsl_from_fractions(F32Div(F32FromInt(self.r), F32_255),
                       F32Div(F32FromInt(self.g), F32_255),
                       F32Div(F32FromInt(self.b), F32_255))

\* The Color trait, dispatched on the variant.
Color_to_rgb(c) == IF c.t = "Rgb" THEN c ELSE HslColor_to_rgb_color(c)

Color_adjust(c, saturation, lightness) ==
    IF c.t = "Rgb" THEN HslColor_adjust(RgbColor_to_hsl_color(c), saturation, lightness)
    ELSE HslColor_adjust(c, saturation, lightness)

Color_lighten(c, amount) ==
    IF c.t = "Rgb" THEN HslColor_lighten(RgbColor_to_hsl_color(c), amount)
    ELSE HslColor_lighten(c, amount)

Color_darken(c, amount) ==
    IF c.t = "Rgb" THEN HslColor_darken(RgbColor_to_hsl_color(c), amount)
    ELSE HslColor_darken(c, amount)

Color_copy(c) == c

mix_channel(x, y, w1, w2) ==
    F32TruncU8(F32Add(F32Mul(F32FromInt(x), w1), F32Mul(F32FromInt(y), w2)))

mix_rgb(c1, c2, w1, w2) ==
    RgbColor_new(mix_channel(c1.r, c2.r, w1, w2),
                 mix_channel(c1.g, c2.g, w1, w2),
                 mix_channel(c1.b, c2.b, w1, w2))

mix(color1, color2, weight) ==
    IF ~F32Contains(F32Zero, F32One, weight)
    THEN Err([kind |-> "RgbColorError::Mix", found |-> weight])
    ELSE Ok(mix_rgb(Color_to_rgb(color1), Color_to_rgb(color2),
                    weight, F32Sub(F32One, weight)))

\* Display for RgbColor: "#{:02x}{:02x}{:02x}".
HexDigits == <<"0", "1", "2", "3", "4", "5", "6", "7", "8", "9",
               "a", "b", "c", "d", "e", "f">>

Hex02(n) == <<HexDigits[(n \div 16) + 1], HexDigits[(n % 16) + 1]>>

RgbColor_fmt(self) == <<"#">> \o Hex02(self.r) \o Hex02(self.g) \o Hex02(self.b)

Color_hex(c) == RgbColor_fmt(Color_to_rgb(c))

(***************************************************************************)
(* Strings: sequences of one-character strings.                            *)
(***************************************************************************)
UpperCase == <<"A", "B", "C", "D", "E", "F", "G", "H", "I", "J", "K", "L", "M",
               "N", "O", "P", "Q", "R", "S", "T", "U", "V", "W", "X", "Y", "Z">>

LowerCase == <<"a", "b", "c", "d", "e", "f", "g", "h", "i", "j", "k", "l", "m",
               "n", "o", "p", "q", "r", "s", "t", "u", "v", "w", "x", "y", "z">>

Digits == <<"0", "1", "2", "3", "4", "5", "6", "7", "8", "9">>

ToLowerChar(c) ==
    IF \E i \in 1..26 : UpperCase[i] = c
    THEN LowerCase[CHOOSE i \in 1..26 : UpperCase[i] = c]
    ELSE c

to_lowercase(s) == [i \in 1..Len(s) |-> ToLowerChar(s[i])]

eq_ignore_ascii_case(s, t) == to_lowercase(s) = to_lowercase(t)

starts_with(s, c) == Len(s) >= 1 /\ s[1] = c

\* str::contains: sub occurs in s.
contains(s, sub) ==
    \E i \in 1..(Len(s) - Len(sub) + 1) : SubSeq(s, i, i + Len(sub) - 1) = sub

\* str::split(sep): the pieces between the separators, empty pieces kept.
RECURSIVE SplitFrom(_, _, _, _)
SplitFrom(s, sep, i, cur) ==
    IF i > Len(s) THEN <<cur>>
    ELSE IF s[i] = sep THEN <<cur>> \o SplitFrom(s, sep, i + 1, <<>>)
    ELSE SplitFrom(s, sep, i + 1, Append(cur, s[i]))

split(s, sep) == SplitFrom(s, sep, 1, <<>>)

IsWhite(c) == c \in {" ", "\t", "\n"}

\* str::trim: leading and trailing white space removed.
trim(s) ==
    IF \A i \in 1..Len(s) : IsWhite(s[i]) THEN <<>>
    ELSE LET a == CHOOSE i \in 1..Len(s) :
                      ~IsWhite(s[i]) /\ \A j \in 1..(i - 1) : IsWhite(s[j])
             b == CHOOSE i \in 1..Len(s) :
                      ~IsWhite(s[i]) /\ \A j \in (i + 1)..Len(s) : IsWhite(s[j])
         IN SubSeq(s, a, b)

IsDigit(c) == \E i \in 1..10 : Digits[i] = c

DigitVal(c) == (CHOOSE i \in 1..10 : Digits[i] = c) - 1

RECURSIVE DigitsValue(_)
DigitsValue(ds) ==
    IF ds = <<>> THEN 0
    ELSE 10 * DigitsValue(SubSeq(ds, 1, Len(ds) - 1)) + DigitVal(ds[Len(ds)])

\* str::parse::<f32>: an optional sign, then "nan", "inf", "infinity" (any
\* case) or decimal digits with at most one point and at least one digit.
\* A decimal of up to seven digits n and k <= 9 fraction digits is n / 10^k
\* correctly rounded, which is the quotient of two exact f32 values.
\* Exponent notation is outside the alphabet of the inputs drawn below.
FractionDigits(body, points) ==
    IF points = {} THEN 0 ELSE Len(body) - (CHOOSE i \in points : TRUE)

parse_decimal(s, sg, body, points, ds) ==
    IF /\ Cardinality(points) <= 1
       /\ Len(ds) >= 1
       /\ \A i \in 1..Len(body) : IsDigit(body[i]) \/ body[i] = "."
    THEN Ok(F32Div(F32FromInt(IF sg = 1 THEN -DigitsValue(ds) ELSE DigitsValue(ds)),
                   F32FromInt(10 ^ FractionDigits(body, points))))
    ELSE Err([kind |-> "ParseFloatError", found |-> s])

parse_unsigned(s, sg, body, low) ==
    IF low = <<"n", "a", "n">> THEN Ok(F32NaN)
    ELSE IF low \in {<<"i", "n", "f">>, <<"i", "n", "f", "i", "n", "i", "t", "y">>}
    THEN Ok(F32Inf(sg))
    ELSE parse_decimal(s, sg, body, {i \in 1..Len(body) : body[i] = "."},
                       SelectSeq(body, IsDigit))

parse_signed(s, sg, body) == parse_unsigned(s, sg, body, to_lowercase(body))

parse_f32(s) ==
    IF Len(s) >= 1 /\ s[1] \in {"+", "-"}
    THEN parse_signed(s, IF s[1] = "-" THEN 1 ELSE 0, SubSeq(s, 2, Len(s)))
    ELSE parse_signed(s, 0, s)

(***************************************************************************)
(* color.rs: RgbColor::parse_from_hex.  The regex ^#([a-fA-F\d]{6})$ is    *)
(* Unicode-aware: \d also matches a decimal digit outside ASCII, which     *)
(* takes more than one byte, while the capture is then sliced by bytes.    *)
(* ArabicThree stands for one such digit (U+0663, two bytes in UTF-8).     *)
(***************************************************************************)
ArabicThree == "U+0663"

IsAsciiHex(c) ==
    IsDigit(c) \/ c \in {"a", "b", "c", "d", "e", "f", "A", "B", "C", "D", "E", "F"}

HexClass(c) == IsAsciiHex(c) \/ c = ArabicThree

Utf8(c) == IF c = ArabicThree THEN <<"byte D9", "byte A3">> ELSE <<c>>

RECURSIVE Utf8Bytes(_)
Utf8Bytes(s) == IF s = <<>> THEN <<>> ELSE Utf8(Head(s)) \o Utf8Bytes(Tail(s))

HexVal(c) ==
    IF IsDigit(c) THEN DigitVal(c)
    ELSE LET l == ToLowerChar(c)
         IN 9 + (CHOOSE i \in 1..6 : LowerCase[i] = l)

\* The byte slice &capture[1][a..b]; slicing inside a character panics.
\* extract: i64::from_str_radix(slice, 16)? as u8, which fails on a digit
\* that is not an ASCII hex digit.
extract(slice) ==
    IF slice[1] = "byte A3" \/ slice[Len(slice)] = "byte D9"
    THEN [ok |-> FALSE, e |-> [kind |-> "panic", found |-> slice]]
    ELSE IF \E i \in 1..Len(slice) : ~IsAsciiHex(slice[i])
    THEN Err([kind |-> "ParseIntError", found |-> slice])
    ELSE Ok((16 * HexVal(slice[1]) + HexVal(slice[2])) % 256)

rgb_from_channels(r, g, b) ==
    IF ~r.ok THEN r
    ELSE IF ~g.ok THEN g
    ELSE IF ~b.ok THEN b
    ELSE Ok(RgbColor_new(r.v, g.v, b.v))

rgb_from_bytes(bytes) ==
    rgb_from_channels(extract(SubSeq(bytes, 1, 2)), extract(SubSeq(bytes, 3, 4)),
                      extract(SubSeq(bytes, 5, 6)))

RgbColor_parse_from_hex(hex) ==
    IF Len(hex) = 7 /\ hex[1] = "#" /\ \A i \in 2..7 : HexClass(hex[i])
    THEN rgb_from_bytes(Utf8Bytes(SubSeq(hex, 2, 7)))
    ELSE Err([kind |-> "RgbColorError::Format", found |-> hex])

(***************************************************************************)
(* format.rs: the palette, an IndexMap kept as a sequence of entries in    *)
(* insertion order, and the resolution of one definition string.           *)
(***************************************************************************)
contains_key(palette, key) == \E i \in 1..Len(palette) : palette[i].key = key

get(palette, key) == palette[CHOOSE i \in 1..Len(palette) : palette[i].key = key].color

\* IndexMap::insert: a new key is appended, an existing key keeps its place
\* and takes the new value.
insert(palette, key, color) ==
    IF contains_key(palette, key)
    THEN [i \in 1..Len(palette) |->
            IF palette[i].key = key THEN [key |-> key, color |-> color] ELSE palette[i]]
    ELSE Append(palette, [key |-> key, color |-> color])

keys(palette) == [i \in 1..Len(palette) |-> palette[i].key]

\* A lookup that falls back to black for a name the palette does not hold.
lookup_color_default(key, palette) ==
    IF contains_key(palette, key) THEN Ok(get(palette, key))
    ELSE Ok(RgbColor_new(0, 0, 0))

lookup_color(key, palette) ==
    IF contains_key(palette, key) THEN Ok(get(palette, key))
    ELSE Err([kind |-> "ThemeError::MissingColor", found |-> key])

trim_all(raw) == [i \in 1..Len(raw) |-> trim(raw[i])]

split_input(capture, expected_parts) ==
    IF Len(split(capture, ",")) # expected_parts
    THEN Err([kind |-> "ThemeError::InvalidColor", found |-> capture])
    ELSE Ok(trim_all(split(capture, ",")))

\* hues: None is [some |-> FALSE]; Some(map) carries a function from hue
\* names to degrees.
NoHues == [some |-> FALSE, map |-> <<>>]

SomeHues(map) == [some |-> TRUE, map |-> map]

\* HslColor::new(h, parts[1].parse()?, parts[2].parse()?)?, the arguments
\* evaluated from the left.
hsl_new(h, s, l) ==
    IF ~h.ok THEN h
    ELSE IF ~s.ok THEN s
    ELSE IF ~l.ok THEN l
    ELSE HslColor_new(h.v, s.v, l.v)

\* A lookup that takes a missing hue table for an empty one.
hue_lookup_flat(key, hues) ==
    IF ~hues.some \/ key \notin DOMAIN hues.map
    THEN Err([kind |-> "ThemeError::MissingHue", found |-> key])
    ELSE Ok(hues.map[key])

hue_lookup(key, hues) ==
    IF ~hues.some THEN Err([kind |-> "ThemeError::MissingHueSection", found |-> key])
    ELSE IF key \notin DOMAIN hues.map
    THEN Err([kind |-> "ThemeError::MissingHue", found |-> key])
    ELSE Ok(hues.map[key])

parse_hsl_color(parts, hues) ==
    IF starts_with(parts[1], "$")
    THEN hsl_new(hue_lookup(SubSeq(parts[1], 2, Len(parts[1])), hues),
                 parse_f32(parts[2]), parse_f32(parts[3]))
    ELSE hsl_new(parse_f32(parts[1]), parse_f32(parts[2]), parse_f32(parts[3]))

adjusted(c, s, l) ==
    IF ~c.ok THEN c
    ELSE IF ~s.ok THEN s
    ELSE IF ~l.ok THEN l
    ELSE Ok(Color_adjust(c.v, s.v, l.v))

adjust_color(parts, palette) ==
    adjusted(lookup_color(parts[1], palette), parse_f32(parts[2]), parse_f32(parts[3]))

lightened(c, a) ==
    IF ~c.ok THEN c
    ELSE IF ~a.ok THEN a
    ELSE Ok(Color_lighten(c.v, a.v))

lighten_color(parts, palette) ==
    lightened(lookup_color(parts[1], palette), parse_f32(parts[2]))

darkened(c, a) ==
    IF ~c.ok THEN c
    ELSE IF ~a.ok THEN a
    ELSE Ok(Color_darken(c.v, a.v))

darken_color(parts, palette) ==
    darkened(lookup_color(parts[1], palette), parse_f32(parts[2]))

mixed(c1, c2, w) ==
    IF ~c1.ok THEN c1
    ELSE IF ~c2.ok THEN c2
    ELSE IF ~w.ok THEN w
    ELSE mix(c1.v, c2.v, w.v)

mix_colors(parts, palette) ==
    mixed(lookup_color(parts[1], palette), lookup_color(parts[2], palette),
          parse_f32(parts[3]))

\* The function names of the regex ^(?i)(hsl|adjust|lighten|darken|mix)\((.*)\)$
FunctionNames == {<<"h", "s", "l">>, <<"a", "d", "j", "u", "s", "t">>,
                  <<"l", "i", "g", "h", "t", "e", "n">>,
                  <<"d", "a", "r", "k", "e", "n">>, <<"m", "i", "x">>}

\* RE.captures(value): the lowercased function name and the text between
\* the "(" after it and the final ")"; "." does not match a newline.
matching_names(value) ==
    {n \in FunctionNames :
        /\ Len(value) >= Len(n) + 2
        /\ to_lowercase(SubSeq(value, 1, Len(n))) = n
        /\ value[Len(n) + 1] = "("
        /\ value[Len(value)] = ")"
        /\ \A i \in (Len(n) + 2)..(Len(value) - 1) : value[i] # "\n"}

capture_of(value, n) ==
    [some |-> TRUE, name |-> n, args |-> SubSeq(value, Len(n) + 2, Len(value) - 1)]

captures(value) ==
    IF matching_names(value) = {} THEN [some |-> FALSE, name |-> <<>>, args |-> <<>>]
    ELSE capture_of(value, CHOOSE n \in matching_names(value) : TRUE)

\* `f(split_input(&capture[2], n)?, ..)`.
with_parts(parts, palette, hues, name) ==
    IF ~parts.ok THEN parts
    ELSE IF name = <<"h", "s", "l">> THEN parse_hsl_color(parts.v, hues)
    ELSE IF name = <<"a", "d", "j", "u", "s", "t">> THEN adjust_color(parts.v, palette)
    ELSE IF name = <<"l", "i", "g", "h", "t", "e", "n">> THEN lighten_color(parts.v, palette)
    ELSE IF name = <<"d", "a", "r", "k", "e", "n">> THEN darken_color(parts.v, palette)
    ELSE mix_colors(parts.v, palette)

expected_parts(name) ==
    IF name \in {<<"l", "i", "g", "h", "t", "e", "n">>, <<"d", "a", "r", "k", "e", "n">>}
    THEN 2 ELSE 3

match_capture(value, capture, palette, hues) ==
    IF ~capture.some
    THEN Err([kind |-> "ThemeError::InvalidColor", found |-> value])
    ELSE with_parts(split_input(capture.args, expected_parts(capture.name)),
                    palette, hues, capture.name)

parse_palette_entry(value, palette, hues) ==
    IF starts_with(value, "#") THEN RgbColor_parse_from_hex(value)
    ELSE match_capture(value, captures(value), palette, hues)

Background_new(input) ==
    IF eq_ignore_ascii_case(input, <<"d", "a", "r", "k">>) THEN Ok("Dark")
    ELSE IF eq_ignore_ascii_case(input, <<"l", "i", "g", "h", "t">>) THEN Ok("Light")
    ELSE Err([kind |-> "ThemeError::InvalidBackground", found |-> input])

(***************************************************************************)
(* highlight.rs: the highlight compiler.  Rendered text is a sequence of   *)
(* characters and literal template fragments, concatenated as format!      *)
(* does.                                                                   *)
(***************************************************************************)
LinkPrefix == <<"l", "i", "n", "k", ":">>

\* str::replace(pat, ""): every non-overlapping occurrence removed, from
\* the left.
RECURSIVE remove_all(_, _)
remove_all(s, pat) ==
    IF Len(s) < Len(pat) THEN s
    ELSE IF SubSeq(s, 1, Len(pat)) = pat
    THEN remove_all(SubSeq(s, Len(pat) + 1, Len(s)), pat)
    ELSE <<Head(s)>> \o remove_all(Tail(s), pat)

\* format::lookup_rgb_color, which highlight.rs imports: the palette entry
\* as an RGB colour, or MissingColor naming the key.
lookup_rgb_color(value, palette) ==
    IF contains_key(palette, value) THEN Ok(Color_to_rgb(get(palette, value)))
    ELSE Err([kind |-> "ThemeError::MissingColor", found |-> value])

rendered(c) == IF ~c.ok THEN c ELSE Ok(RgbColor_fmt(c.v))

\* A lookup that takes "-" for a palette name like any other token.
lookup_highlight_strict(value, palette) ==
    rendered(lookup_rgb_color(value, palette))

lookup_highlight(value, palette) ==
    IF value = <<"-">> THEN Ok(<<"N", "O", "N", "E">>)
    ELSE rendered(lookup_rgb_color(value, palette))

StyleFlags == <<"b", "i", "u", "c", "d", "t", "h", "o", "s", "n", "r">>

\* The attribute table with the entries of "t" and "h" exchanged.
StyleAttributes_swapped == <<"bold = true", "italic = true", "underline = true",
                             "undercurl = true", "underdouble = true",
                             "underdashed = true", "underdotted = true",
                             "standout = true", "strikethrough = true",
                             "nocombine = true", "reverse = true">>

StyleAttributes == <<"bold = true", "italic = true", "underline = true",
                     "undercurl = true", "underdouble = true",
                     "underdotted = true", "underdashed = true",
                     "standout = true", "strikethrough = true",
                     "nocombine = true", "reverse = true">>

\* Vec<String>::join(sep).
RECURSIVE join(_, _)
join(list, sep) ==
    IF list = <<>> THEN <<>>
    ELSE IF Len(list) = 1 THEN <<list[1]>>
    ELSE <<list[1], sep>> \o join(Tail(list), sep)

\* The loop over style.chars(): <<attributes pushed so far, first unknown
\* character or <<>> >>.
RECURSIVE style_loop(_, _, _)
style_loop(style, i, acc) ==
    IF i > Len(style) THEN Ok(acc)
    ELSE IF \E k \in 1..11 : StyleFlags[k] = style[i]
    THEN style_loop(style, i + 1,
                    Append(acc, StyleAttributes[CHOOSE k \in 1..11 : StyleFlags[k] = style[i]]))
    ELSE IF style[i] = "-" THEN style_loop(style, i + 1, acc)
    ELSE Err([kind |-> "ThemeError::UnknownStyleOption", found |-> <<style[i]>>])

joined(r) == IF ~r.ok THEN r ELSE Ok(join(r.v, ", "))

parse_style_options(style) == joined(style_loop(style, 1, <<>>))

\* The four arms with colours; format! evaluates its arguments in the
\* order written and `?` returns the first error.
hl_head(hl_group) == <<"\n    hl(0, \"">> \o hl_group

fmt_fg(hl_group, fg) ==
    IF ~fg.ok THEN fg
    ELSE Ok(hl_head(hl_group) \o <<"\", { fg = \"">> \o fg.v
                \o <<"\", bg = \"NONE\" })">>)

fmt_fg_bg(hl_group, fg, bg) ==
    IF ~fg.ok THEN fg
    ELSE IF ~bg.ok THEN bg
    ELSE Ok(hl_head(hl_group) \o <<"\", { fg = \"">> \o fg.v \o <<"\", bg = \"">>
                \o bg.v \o <<"\" })">>)

fmt_fg_bg_style(hl_group, fg, bg, style) ==
    IF ~fg.ok THEN fg
    ELSE IF ~bg.ok THEN bg
    ELSE IF ~style.ok THEN style
    ELSE Ok(hl_head(hl_group) \o <<"\", { fg = \"">> \o fg.v \o <<"\", bg = \"">>
                \o bg.v \o <<"\", ">> \o style.v \o <<" })">>)

fmt_fg_bg_sp_style(hl_group, fg, bg, sp, style) ==
    IF ~fg.ok THEN fg
    ELSE IF ~bg.ok THEN bg
    ELSE IF ~sp.ok THEN sp
    ELSE IF ~style.ok THEN style
    ELSE Ok(hl_head(hl_group) \o <<"\", { fg = \"">> \o fg.v \o <<"\", bg = \"">>
                \o bg.v \o <<"\", sp = \"">> \o sp.v \o <<"\", ">> \o style.v
                \o <<" })">>)

fmt_link(hl_group, fg) ==
    Ok(hl_head(hl_group) \o <<"\", { link = \"">> \o remove_all(fg, LinkPrefix)
           \o <<"\" })">>)

match_values(hl_group, value, values, palette) ==
    IF Len(values) = 1
    THEN IF contains(values[1], LinkPrefix) THEN fmt_link(hl_group, values[1])
         ELSE fmt_fg(hl_group, lookup_highlight(values[1], palette))
    ELSE IF Len(values) = 2
    THEN fmt_fg_bg(hl_group, lookup_highlight(values[1], palette),
                   lookup_highlight(values[2], palette))
    ELSE IF Len(values) = 3
    THEN fmt_fg_bg_style(hl_group, lookup_highlight(values[1], palette),
                         lookup_highlight(values[2], palette),
                         parse_style_options(values[3]))
    ELSE IF Len(values) = 4
    THEN fmt_fg_bg_sp_style(hl_group, lookup_highlight(values[1], palette),
                            lookup_highlight(values[2], palette),
                            lookup_highlight(values[4], palette),
                            parse_style_options(values[3]))
    ELSE Err([kind |-> "ThemeError::InvalidHighlight", found |-> value])

NonEmpty(x) == x # <<>>

parse_highlight(hl_group, value, palette) ==
    match_values(hl_group, value, SelectSeq(split(value, " "), NonEmpty), palette)

(***************************************************************************)
(* State.                                                                  *)
(*   parsed .. result   Theme::new(parsed): the input, the position in the *)
(*                      function (pc, idx) and its locals                  *)
(*   color, last, steps a colour value and the operation applied last      *)
(*   arg, ret           the argument and the return value of one call of a *)
(*                      pure function                                      *)
(***************************************************************************)
VARIABLES parsed, pc, idx, palette, highlights, globals, result,
          color, last, steps, arg, ret

themeVars == <<parsed, pc, idx, palette, highlights, globals, result>>

colorVars == <<color, last, steps>>

callVars == <<arg, ret>>

vars == <<parsed, pc, idx, palette, highlights, globals, result,
          color, last, steps, arg, ret>>

(***************************************************************************)
(* Inputs.  A TOML value is a string or something else (as_str() is None). *)
(***************************************************************************)
TomlStr(s) == [ty |-> "String", s |-> s]

TomlInt == [ty |-> "Integer", s |-> <<>>]

\* Texts joined by a separator.
RECURSIVE concat_with(_, _)
concat_with(list, sep) ==
    IF list = <<>> THEN <<>>
    ELSE IF Len(list) = 1 THEN list[1]
    ELSE list[1] \o sep \o concat_with(Tail(list), sep)

\* name(arg,arg,...) as text.
Call(name, args) == name \o <<"(">> \o concat_with(args, <<",">>) \o <<")">>

T_hsl == <<"h", "s", "l">>

T_adjust == <<"a", "d", "j", "u", "s", "t">>

T_lighten == <<"l", "i", "g", "h", "t", "e", "n">>

T_darken == <<"d", "a", "r", "k", "e", "n">>

T_mix == <<"m", "i", "x">>

T_red == <<"#", "f", "f", "0", "0", "0", "0">>

\* Entries of a table: every sequence of at most n entries with distinct
\* keys from names and values from values, in the table's iteration order.
RECURSIVE Tables(_, _, _)
Tables(names, values, n) ==
    IF n = 0 THEN {<<>>}
    ELSE LET shorter == Tables(names, values, n - 1)
         IN shorter \cup
            {Append(t, [key |-> k, value |-> v]) :
                t \in {x \in shorter : Len(x) = n - 1},
                k \in names, v \in values}

DistinctKeys(t) == \A i, j \in 1..Len(t) : t[i].key = t[j].key => i = j

MaxColors == 2

MaxHighlights == 1

MaxGlobals == 1

ColorNames == {<<"a">>, <<"b">>, <<"c">>}

ColorDefs ==
    {TomlStr(T_red),
     TomlStr(<<"a">>),
     TomlStr(Call(T_lighten, << <<"a">>, <<"0", ".", "2">> >>)),
     TomlStr(Call(T_darken, << <<"b">>, <<" ", "0", ".", "2">> >>)),
     TomlStr(Call(T_adjust, << <<"a">>, <<"0", ".", "2">>, <<"-", "0", ".", "6">> >>)),
     TomlStr(Call(T_mix, << <<"a">>, <<"b">>, <<"0", ".", "5">> >>)),
     TomlStr(Call(T_hsl, << <<"$", "h">>, <<"1">>, <<"0", ".", "5">> >>)),
     TomlInt}

HueTables == {SomeHues([x \in {<<"h">>} |-> F32FromInt(120)])}

HighlightNames == {<<"G">>}

HighlightDefs ==
    {TomlStr(<<"a", " ", "-", " ", "b", "i">>),
     TomlStr(<<"z">>)}

GlobalNames == {<<"g">>}

GlobalDefs ==
    {TomlStr(<<"a">>),
     TomlStr(Call(T_darken, << <<"z">>, <<"0", ".", "2">> >>))}

Backgrounds == {<<"D", "a", "r", "k">>, <<"b", "l", "u", "e">>}

ParsedThemes ==
    [name       : {<<"t">>},
     background : Backgrounds,
     hues       : HueTables,
     colors     : {t \in Tables(ColorNames, ColorDefs, MaxColors) : DistinctKeys(t)},
     highlights : {t \in Tables(HighlightNames, HighlightDefs, MaxHighlights) :
                      DistinctKeys(t)},
     globals    : {t \in Tables(GlobalNames, GlobalDefs, MaxGlobals) : DistinctKeys(t)}]

(***************************************************************************)
(* format.rs: Theme::new(parsed), one step per loop iteration.             *)
(***************************************************************************)
NoResult == [ok |-> FALSE, e |-> [kind |-> "not returned", found |-> <<>>]]

NoColor == RgbColor_new(0, 0, 0)

NoLast == [op |-> "none"]

MissingValue == [kind |-> "ThemeError::MissingValue", found |-> <<>>]

\* Theme::new has returned: result holds Ok(theme) or the error.
Returned == result.ok \/ result.e.kind # "not returned"

\* `?` and `return Err(..)`: Theme::new returns the error; pc and idx stay
\* where it returned from.
Fail(e) ==
    /\ result' = Err(e)
    /\ UNCHANGED <<parsed, pc, idx, palette, highlights, globals>>

\* An iteration without the contains_key branch: every string is evaluated
\* as an expression.
palette_entry_evaluated(entry, pal, hues) ==
    IF entry.value.ty # "String" THEN Err(MissingValue)
    ELSE parse_palette_entry(entry.value.s, pal, hues)

\* What one iteration of parse_palette's loop does with an entry: the colour
\* it inserts under the entry's key, or the error it returns.
palette_entry(entry, pal, hues) ==
    IF entry.value.ty # "String" THEN Err(MissingValue)
    ELSE IF contains_key(pal, entry.value.s)
    THEN Ok(Color_copy(get(pal, entry.value.s)))
    ELSE parse_palette_entry(entry.value.s, pal, hues)

\* A loop that skips a failing entry and goes on with the next one.
PaletteInsert_skip(key, r) ==
    /\ palette' = IF r.ok THEN insert(palette, key, r.v) ELSE palette
    /\ idx' = idx + 1
    /\ UNCHANGED <<parsed, pc, highlights, globals, result>>

\* parse_palette: one iteration of `for (key, value) in &input.colors`.
PaletteInsert(key, r) ==
    IF r.ok
    THEN /\ palette' = insert(palette, key, r.v)
         /\ idx' = idx + 1
         /\ UNCHANGED <<parsed, pc, highlights, globals, result>>
    ELSE Fail(r.e)

PaletteStep ==
    /\ ~Returned
    /\ pc = "palette"
    /\ idx <= Len(parsed.colors)
    /\ PaletteInsert(parsed.colors[idx].key,
                     palette_entry(parsed.colors[idx], palette, parsed.hues))
    /\ UNCHANGED <<colorVars, callVars>>

\* parse_palette returns Ok(palette); Theme::new goes on to the highlights.
PaletteReturn ==
    /\ ~Returned
    /\ pc = "palette"
    /\ idx > Len(parsed.colors)
    /\ pc' = "highlights"
    /\ idx' = 1
    /\ UNCHANGED <<parsed, palette, highlights, globals, result>>
    /\ UNCHANGED <<colorVars, callVars>>

\* One iteration of `for (key, value) in &parsed.highlights`.
highlight_entry(entry, pal) ==
    IF entry.value.ty # "String" THEN Err(MissingValue)
    ELSE parse_highlight(entry.key, entry.value.s, pal)

\* A loop that leaves a failing highlight out and goes on with the next one.
HighlightPush_skip(r) ==
    /\ highlights' = IF r.ok THEN Append(highlights, r.v) ELSE highlights
    /\ idx' = idx + 1
    /\ UNCHANGED <<parsed, pc, palette, globals, result>>

HighlightPush(r) ==
    IF r.ok
    THEN /\ highlights' = Append(highlights, r.v)
         /\ idx' = idx + 1
         /\ UNCHANGED <<parsed, pc, palette, globals, result>>
    ELSE Fail(r.e)

HighlightStep ==
    /\ ~Returned
    /\ pc = "highlights"
    /\ idx <= Len(parsed.highlights)
    /\ HighlightPush(highlight_entry(parsed.highlights[idx], palette))
    /\ UNCHANGED <<colorVars, callVars>>

HighlightsEnd ==
    /\ ~Returned
    /\ pc = "highlights"
    /\ idx > Len(parsed.highlights)
    /\ pc' = "globals"
    /\ idx' = 1
    /\ UNCHANGED <<parsed, palette, highlights, globals, result>>
    /\ UNCHANGED <<colorVars, callVars>>

\* One iteration of `for (key, value) in &parsed.globals`.
global_line(key, c) ==
    IF ~c.ok THEN c
    ELSE Ok(<<"    vim.g.">> \o key \o <<" = \"">> \o Color_hex(c.v) \o <<"\"\n">>)

global_entry(entry, pal, hues) ==
    IF entry.value.ty # "String" THEN Err(MissingValue)
    ELSE IF contains_key(pal, entry.value.s)
    THEN global_line(entry.key, Ok(get(pal, entry.value.s)))
    ELSE global_line(entry.key, parse_palette_entry(entry.value.s, pal, hues))

GlobalPush(r) ==
    IF r.ok
    THEN /\ globals' = Append(globals, r.v)
         /\ idx' = idx + 1
         /\ UNCHANGED <<parsed, pc, palette, highlights, result>>
    ELSE Fail(r.e)

GlobalStep ==
    /\ ~Returned
    /\ pc = "globals"
    /\ idx <= Len(parsed.globals)
    /\ GlobalPush(global_entry(parsed.globals[idx], palette, parsed.hues))
    /\ UNCHANGED <<colorVars, callVars>>

GlobalsEnd ==
    /\ ~Returned
    /\ pc = "globals"
    /\ idx > Len(parsed.globals)
    /\ pc' = "background"
    /\ UNCHANGED <<parsed, idx, palette, highlights, globals, result>>
    /\ UNCHANGED <<colorVars, callVars>>

\* After the globals: Background::new(&parsed.background)?, then Ok(Theme).
Return(bg) ==
    IF ~bg.ok THEN Fail(bg.e)
    ELSE /\ result' = Ok([name |-> parsed.name, background |-> bg.v,
                          palette |-> palette, highlights |-> highlights,
                          globals |-> globals])
         /\ UNCHANGED <<parsed, pc, idx, palette, highlights, globals>>

Finish ==
    /\ ~Returned
    /\ pc = "background"
    /\ Return(Background_new(parsed.background))
    /\ UNCHANGED <<colorVars, callVars>>

Init ==
    /\ parsed \in ParsedThemes
    /\ pc = "palette"
    /\ idx = 1
    /\ palette = <<>>
    /\ highlights = <<>>
    /\ globals = <<>>
    /\ result = NoResult
    /\ color = NoColor
    /\ last = NoLast
    /\ steps = 0
    /\ arg = <<>>
    /\ ret = NoResult

Next ==
    \/ PaletteStep
    \/ PaletteReturn
    \/ HighlightStep
    \/ HighlightsEnd
    \/ GlobalStep
    \/ GlobalsEnd
    \/ Finish

Spec == Init /\ [][Next]_vars

(***************************************************************************)
(* Properties of palette resolution (specification Spec).                  *)
(***************************************************************************)
\* The names an adjust/lighten/darken/mix definition with the right number
\* of arguments refers to, in the order written; <<>> for any other text.
ReferencedOf(c, parts) ==
    IF ~c.some \/ c.name = <<"h", "s", "l">> \/ ~parts.ok THEN <<>>
    ELSE IF c.name = <<"m", "i", "x">> THEN <<parts.v[1], parts.v[2]>>
    ELSE <<parts.v[1]>>

ReferencedIn(value, c) ==
    IF ~c.some THEN <<>>
    ELSE ReferencedOf(c, split_input(c.args, expected_parts(c.name)))

Referenced(value) ==
    IF starts_with(value, "#") THEN <<>> ELSE ReferencedIn(value, captures(value))

\* The referenced names the palette pal does not hold.
MissingRefs(value, pal) ==
    SelectSeq(Referenced(value), LAMBDA n : ~contains_key(pal, n))

\* The entry is a reference expression for the palette pal: a string that is
\* not verbatim a palette name and has the adjust/lighten/darken/mix form.
IsReferenceEntry(entry, pal) ==
    /\ entry.value.ty = "String"
    /\ ~contains_key(pal, entry.value.s)
    /\ Referenced(entry.value.s) # <<>>

DeclaredKeys(n) == [i \in 1..n |-> parsed.colors[i].key]

\* C1: during palette resolution in source order, an adjust/lighten/darken/
\* mix entry with a referenced name that is not in the palette at that
\* moment (declared later, never declared, or the entry's own name) makes
\* Theme::new fail with ThemeError::MissingColor naming the first missing
\* key; and no such entry is ever inserted: every reference entry in the
\* palette had all its names among the entries before it.
C1_MissingReference ==
    /\ keys(palette) = DeclaredKeys(Len(palette))
    /\ (/\ Returned
        /\ pc = "palette"
        /\ IsReferenceEntry(parsed.colors[idx], palette)
        /\ MissingRefs(parsed.colors[idx].value.s, palette) # <<>>)
       => /\ ~result.ok
          /\ result.e.kind = "ThemeError::MissingColor"
          /\ result.e.found = Head(MissingRefs(parsed.colors[idx].value.s, palette))
    /\ \A i \in 1..Len(palette) :
          IsReferenceEntry(parsed.colors[i], SubSeq(palette, 1, i - 1))
              => MissingRefs(parsed.colors[i].value.s, SubSeq(palette, 1, i - 1)) = <<>>
    /\ (pc = "palette" /\ ~Returned /\ idx <= Len(parsed.colors))
           => Len(palette) = idx - 1

\* Resolution has failed on a reference to a name that is declared by the
\* failing entry itself or by a later one.
C1_Witness ==
    /\ Returned
    /\ pc = "palette"
    /\ ~result.ok
    /\ result.e.kind = "ThemeError::MissingColor"
    /\ IsReferenceEntry(parsed.colors[idx], palette)
    /\ \E j \in idx..Len(parsed.colors) : parsed.colors[j].key = result.e.found

\* C2: parse_palette takes the colour entries one by one in source order
\* and stops at the first that fails: the palette then holds exactly the
\* entries before it, the result is that entry's error, and no highlight,
\* global or theme has been produced; once the palette phase is over the
\* palette holds exactly the declared names, in order.
C2_StopsAtFirstFailure ==
    /\ pc = "palette"
          => /\ ~result.ok
             /\ highlights = <<>>
             /\ globals = <<>>
             /\ Len(palette) = idx - 1
             /\ keys(palette) = DeclaredKeys(idx - 1)
    /\ (Returned /\ pc = "palette")
          => /\ idx <= Len(parsed.colors)
             /\ ~palette_entry(parsed.colors[idx], palette, parsed.hues).ok
             /\ result.e.kind =
                    palette_entry(parsed.colors[idx], palette, parsed.hues).e.kind
             /\ result.e.found =
                    palette_entry(parsed.colors[idx], palette, parsed.hues).e.found
    /\ pc # "palette" => keys(palette) = DeclaredKeys(Len(parsed.colors))

\* Resolution has failed at the second entry after inserting the first.
C2_Witness ==
    /\ Returned
    /\ pc = "palette"
    /\ idx = 2
    /\ Len(palette) = 1
    /\ Len(parsed.colors) = 2

\* The loop is at an entry whose string is verbatim a palette name.
AtAlias ==
    /\ ~Returned
    /\ pc = "palette"
    /\ idx <= Len(parsed.colors)
    /\ parsed.colors[idx].value.ty = "String"
    /\ contains_key(palette, parsed.colors[idx].value.s)

\* C3: an entry whose definition string is verbatim the name of a palette
\* entry is inserted with that entry's colour, without being evaluated; and
\* every step keeps the entries already in the palette as they are, a
\* successful palette step adding exactly one new name at the end.
C3_CopyAndFrame ==
    [][/\ Len(palette') >= Len(palette)
       /\ Len(palette') <= Len(palette) + 1
       /\ \A i \in 1..Len(palette) : palette'[i] = palette[i]
       /\ Len(palette') = Len(palette) + 1
             => /\ pc = "palette"
                /\ palette'[Len(palette')].key = parsed.colors[idx].key
                /\ ~contains_key(palette, parsed.colors[idx].key)
       /\ (pc = "palette" /\ idx' = idx + 1) => Len(palette') = Len(palette) + 1
       /\ AtAlias
             => /\ Len(palette') = Len(palette) + 1
                /\ palette'[Len(palette')] =
                      [key |-> parsed.colors[idx].key,
                       color |-> get(palette, parsed.colors[idx].value.s)]]_vars

\* The second entry was defined by the first entry's name and holds its
\* colour.
C3_Witness ==
    /\ Len(palette) = 2
    /\ parsed.colors[2].value.ty = "String"
    /\ parsed.colors[2].value.s = parsed.colors[1].key
    /\ palette[2].color = palette[1].color
    /\ palette[2].key # palette[1].key

\* parse_palette(input, hues) as a whole: the palette of every entry of
\* input.colors in source order, or the error of the first that fails.
RECURSIVE parse_palette_from(_, _, _, _)
parse_palette_next(colors, hues, i, pal, r) ==
    IF r.ok THEN parse_palette_from(colors, hues, i + 1, insert(pal, colors[i].key, r.v))
    ELSE r

parse_palette_from(colors, hues, i, pal) ==
    IF i > Len(colors) THEN Ok(pal)
    ELSE parse_palette_next(colors, hues, i, pal, palette_entry(colors[i], pal, hues))

parse_palette(input) == parse_palette_from(input.colors, input.hues, 1, <<>>)

\* The highlights and the globals of a theme that do not resolve against a
\* palette.
FailingHighlights(input, pal) ==
    {i \in 1..Len(input.highlights) : ~highlight_entry(input.highlights[i], pal).ok}

FailingGlobals(input, pal) ==
    {i \in 1..Len(input.globals) : ~global_entry(input.globals[i], pal, input.hues).ok}

Earliest(S) == CHOOSE i \in S : \A j \in S : i <= j

NoFailure == [kind |-> "none", found |-> <<>>]

\* The failure of the earliest phase of a theme, and of the earliest entry
\* within it, given the outcome of its palette.
FirstFailure(input, pal) ==
    IF ~pal.ok THEN pal.e
    ELSE IF FailingHighlights(input, pal.v) # {}
    THEN highlight_entry(input.highlights[Earliest(FailingHighlights(input, pal.v))],
                         pal.v).e
    ELSE IF FailingGlobals(input, pal.v) # {}
    THEN global_entry(input.globals[Earliest(FailingGlobals(input, pal.v))],
                      pal.v, input.hues).e
    ELSE IF ~Background_new(input.background).ok
    THEN Background_new(input.background).e
    ELSE NoFailure

AllResolved(input, pal) ==
    /\ pal.ok
    /\ FailingHighlights(input, pal.v) = {}
    /\ FailingGlobals(input, pal.v) = {}

PhaseOrder(input, pal, first) ==
    /\ result.ok <=> first.kind = "none"
    /\ ~result.ok => /\ result.e.kind = first.kind
                     /\ result.e.found = first.found
    /\ (~result.ok /\ result.e.kind = "ThemeError::InvalidBackground")
          => AllResolved(input, pal)
    /\ (~result.ok /\ pc = "highlights") => pal.ok
    /\ (~result.ok /\ pc = "globals") => (pal.ok /\ FailingHighlights(input, pal.v) = {})

\* C14: Theme::new runs palette resolution, then highlight compilation,
\* then globals resolution, then background validation, and returns at the
\* first failure: of a theme with several invalid inputs it reports the
\* error of the earliest phase and of the earliest entry within it, so
\* InvalidBackground only if every colour, highlight and global resolved,
\* and a highlight error only if the whole palette resolved.
C14_PhaseOrder ==
    Returned
        => PhaseOrder(parsed, parse_palette(parsed),
                      FirstFailure(parsed, parse_palette(parsed)))

\* A highlight has failed in a theme whose global and background are
\* invalid as well.
C14_Witness ==
    /\ Returned
    /\ ~result.ok
    /\ pc = "highlights"
    /\ Len(palette) = Len(parsed.colors)
    /\ FailingGlobals(parsed, palette) # {}
    /\ ~Background_new(parsed.background).ok

(***************************************************************************)
(* color.rs: conversions and mix applied to colours read from hex text     *)
(* (specification SpecColor).                                              *)
(***************************************************************************)
ChannelSteps == 4

MaxColorOps == 2

Channels == {(k * 255) \div ChannelSteps : k \in 0..ChannelSteps}

HexTexts == {RgbColor_fmt(RgbColor_new(r, g, b)) : r, g, b \in Channels}

\* The second colour of a mix: an RGB colour or an HSL colour.
Partners == {RgbColor_new(255, 0, 0),
             HslColor_new(F32FromInt(120), F32Half, F32Half).v}

WeightTexts == {<<"0">>, <<"1">>, <<"0", ".", "1">>, <<"1", ".", "5">>}

InitColor ==
    /\ parsed = <<>>
    /\ pc = "color"
    /\ idx = 1
    /\ palette = <<>>
    /\ highlights = <<>>
    /\ globals = <<>>
    /\ result = NoResult
    /\ \E text \in HexTexts : color = RgbColor_parse_from_hex(text).v
    /\ last = NoLast
    /\ steps = 0
    /\ arg \in Partners
    /\ ret = NoResult

\* HslColor::from(rgb) / rgb.to_hsl_color().
ToHsl ==
    /\ steps < MaxColorOps
    /\ color.t = "Rgb"
    /\ color' = RgbColor_to_hsl_color(color)
    /\ last' = [op |-> "to_hsl", from |-> color]
    /\ steps' = steps + 1
    /\ UNCHANGED <<themeVars, callVars>>

\* hsl.to_rgb().
ToRgb ==
    /\ steps < MaxColorOps
    /\ color.t = "Hsl"
    /\ color' = HslColor_to_rgb_color(color)
    /\ last' = [op |-> "to_rgb", from |-> color]
    /\ steps' = steps + 1
    /\ UNCHANGED <<themeVars, callVars>>

\* mix(&color, &other, weight): the colour becomes the result; an error
\* leaves it as it is.
Mixed(other, weight, r) ==
    /\ color' = IF r.ok THEN r.v ELSE color
    /\ last' = [op |-> "mix", from |-> color, other |-> other,
                weight |-> weight, ok |-> r.ok]
    /\ steps' = steps + 1

MixWith(other, weight) == Mixed(other, weight, mix(color, other, weight))

Mix ==
    /\ steps < MaxColorOps
    /\ \E other \in {color, arg}, text \in WeightTexts :
          MixWith(other, parse_f32(text).v)
    /\ UNCHANGED <<themeVars, callVars>>

NextColor ==
    \/ ToHsl
    \/ ToRgb
    \/ Mix

SpecColor == InitColor /\ [][NextColor]_vars

\* C4: an RGB colour converted to HSL renders, through the conversion back
\* to RGB, the same #rrggbb text as the RGB colour it came from.
C4_RoundTrip ==
    last.op = "to_hsl"
        => RgbColor_fmt(HslColor_to_rgb_color(color)) = RgbColor_fmt(last.from)

\* A chromatic colour has been converted to HSL.
C4_Witness ==
    /\ last.op = "to_hsl"
    /\ last.from.r # last.from.g
    /\ last.from.g # last.from.b
    /\ ~F32Eq(color.saturation, F32Zero)

\* C5: for a weight in [0, 1], mix(c, c, w) is c's RGB value, mix(c1, c2,
\* 1.0) is c1's RGB value and mix(c1, c2, 0.0) is c2's RGB value.
C5_MixIdentities ==
    (last.op = "mix" /\ last.ok)
        => /\ last.other = last.from => color = Color_to_rgb(last.from)
           /\ F32Eq(last.weight, F32One) => color = Color_to_rgb(last.from)
           /\ F32Eq(last.weight, F32Zero) => color = Color_to_rgb(last.other)

(***************************************************************************)
(* color.rs: HslColor::new, adjust, lighten and darken applied in          *)
(* sequence (specification SpecHsl).  The arguments are the values         *)
(* str::parse::<f32> gives for texts a theme can hold.                     *)
(***************************************************************************)
MaxHslOps == 3

SeedTexts == {T_red,
              <<"#", "3", "f", "7", "f", "b", "f">>,
              <<"#", "8", "0", "8", "0", "8", "0">>}

HueTexts == {<<"1", "2", "0">>, <<"3", "6", "0">>, <<"3", "6", "1">>, <<"N", "a", "N">>}

SaturationTexts == {<<"0">>, <<"1">>, <<"1", ".", "5">>}

LightnessTexts == {<<"0", ".", "5">>, <<"-", "0", ".", "1">>, <<"N", "a", "N">>}

DeltaTexts == {<<"0", ".", "2">>, <<"-", "0", ".", "6">>,
               <<"1", "0", "0", "0", "0", "0", "0">>, <<"N", "a", "N">>}

InitHsl ==
    /\ parsed = <<>>
    /\ pc = "hsl"
    /\ idx = 1
    /\ palette = <<>>
    /\ highlights = <<>>
    /\ globals = <<>>
    /\ result = NoResult
    /\ \E text \in SeedTexts : color = RgbColor_parse_from_hex(text).v
    /\ last = NoLast
    /\ steps = 0
    /\ arg = <<>>
    /\ ret = NoResult

\* HslColor::new(hue, saturation, lightness): the colour on success.
Constructed(hue, saturation, lightness, r) ==
    /\ color' = IF r.ok THEN r.v ELSE color
    /\ last' = [op |-> "new", hue |-> hue, saturation |-> saturation,
                lightness |-> lightness, r |-> r]
    /\ steps' = steps + 1

Construct(hue, saturation, lightness) ==
    Constructed(hue, saturation, lightness, HslColor_new(hue, saturation, lightness))

HslNew ==
    /\ steps < MaxHslOps
    /\ \E h \in HueTexts, s \in SaturationTexts, l \in LightnessTexts :
          Construct(parse_f32(h).v, parse_f32(s).v, parse_f32(l).v)
    /\ UNCHANGED <<themeVars, callVars>>

HslFromRgb ==
    /\ steps < MaxHslOps
    /\ color.t = "Rgb"
    /\ color' = RgbColor_to_hsl_color(color)
    /\ last' = [op |-> "from_rgb", from |-> color]
    /\ steps' = steps + 1
    /\ UNCHANGED <<themeVars, callVars>>

Adjust ==
    /\ steps < MaxHslOps
    /\ color.t = "Hsl"
    /\ \E s \in DeltaTexts, l \in DeltaTexts :
          /\ color' = HslColor_adjust(color, parse_f32(s).v, parse_f32(l).v)
          /\ last' = [op |-> "adjust", from |-> color,
                      saturation |-> parse_f32(s).v, lightness |-> parse_f32(l).v]
    /\ steps' = steps + 1
    /\ UNCHANGED <<themeVars, callVars>>

Lighten ==
    /\ steps < MaxHslOps
    /\ color.t = "Hsl"
    /\ \E a \in DeltaTexts :
          /\ color' = HslColor_lighten(color, parse_f32(a).v)
          /\ last' = [op |-> "lighten", from |-> color, amount |-> parse_f32(a).v]
    /\ steps' = steps + 1
    /\ UNCHANGED <<themeVars, callVars>>

Darken ==
    /\ steps < MaxHslOps
    /\ color.t = "Hsl"
    /\ \E a \in DeltaTexts :
          /\ color' = HslColor_darken(color, parse_f32(a).v)
          /\ last' = [op |-> "darken", from |-> color, amount |-> parse_f32(a).v]
    /\ steps' = steps + 1
    /\ UNCHANGED <<themeVars, callVars>>

NextHsl ==
    \/ HslNew
    \/ HslFromRgb
    \/ Adjust
    \/ Lighten
    \/ Darken

SpecHsl == InitHsl /\ [][NextHsl]_vars

\* x lies in [lo, hi]; a NaN lies in no interval.
Within(x, lo, hi) == x.k = "fin" /\ ~F32Lt(x, lo) /\ ~F32Lt(hi, x)

InUnit(x) == Within(x, F32Zero, F32One)

\* C6: every HslColor has hue, saturation and lightness in [0, 1]:
\* HslColor::new succeeds exactly on hue in [0, 360] and saturation and
\* lightness in [0, 1], otherwise failing with the Hue, Saturation or
\* Lightness error that carries the first offending value; and every colour
\* reached by conversions from RGB, adjust, lighten and darken with any
\* delta keeps its three fields in range.
C6_FieldsInRange ==
    /\ color.t = "Hsl"
          => InUnit(color.hue) /\ InUnit(color.saturation) /\ InUnit(color.lightness)
    /\ last.op = "new"
          => /\ last.r.ok <=> /\ Within(last.hue, F32Zero, F32_360)
                              /\ InUnit(last.saturation)
                              /\ InUnit(last.lightness)
             /\ ~Within(last.hue, F32Zero, F32_360)
                   => /\ ~last.r.ok
                      /\ last.r.e.kind = "HslColorError::Hue"
                      /\ last.r.e.found = last.hue
             /\ (Within(last.hue, F32Zero, F32_360) /\ ~InUnit(last.saturation))
                   => /\ ~last.r.ok
                      /\ last.r.e.kind = "HslColorError::Saturation"
                      /\ last.r.e.found = last.saturation
             /\ (/\ Within(last.hue, F32Zero, F32_360)
                 /\ InUnit(last.saturation)
                 /\ ~InUnit(last.lightness))
                   => /\ ~last.r.ok
                      /\ last.r.e.kind = "HslColorError::Lightness"
                      /\ last.r.e.found = last.lightness

\* r is x clamped to [0, 1] as f32::clamp does it: 0 below, 1 above, x
\* itself (a NaN included) otherwise.
IsClampOf(r, x) ==
    IF F32Lt(x, F32Zero) THEN r = F32Zero
    ELSE IF F32Lt(F32One, x) THEN r = F32One
    ELSE r = x

\* C7: adjust(ds, dl) on (h, s, l) gives (h, clamp(s + ds), clamp(l + dl)),
\* lighten(d) gives (h, s, clamp(l + d)) and darken(d) gives
\* (h, s, clamp(l - d)), the clamp to [0, 1]; each of them yields an HSL
\* colour for every argument.
C7_AdjustFrame ==
    /\ last.op = "adjust"
          => /\ color.t = "Hsl"
             /\ color.hue = last.from.hue
             /\ IsClampOf(color.saturation,
                          F32Add(last.from.saturation, last.saturation))
             /\ IsClampOf(color.lightness,
                          F32Add(last.from.lightness, last.lightness))
    /\ last.op = "lighten"
          => /\ color.t = "Hsl"
             /\ color.hue = last.from.hue
             /\ color.saturation = last.from.saturation
             /\ IsClampOf(color.lightness, F32Add(last.from.lightness, last.amount))
    /\ last.op = "darken"
          => /\ color.t = "Hsl"
             /\ color.hue = last.from.hue
             /\ color.saturation = last.from.saturation
             /\ IsClampOf(color.lightness, F32Sub(last.from.lightness, last.amount))

\* A darken has clamped a positive lightness down to 0.
C7_Witness ==
    /\ last.op = "darken"
    /\ color.lightness = F32Zero
    /\ F32Lt(F32Zero, last.from.lightness)
    /\ F32Lt(F32One, last.amount)

(***************************************************************************)
(* format.rs: parse_palette_entry called on one definition string          *)
(* (specification SpecEntry).                                              *)
(***************************************************************************)
MaxArgs == 4

ArgTexts == {<<"a">>, <<"$", "h">>, <<"$", "x">>, <<"0", ".", "5">>}

RECURSIVE ArgLists(_)
ArgLists(n) ==
    IF n = 0 THEN {<<>>}
    ELSE ArgLists(n - 1) \cup
         {Append(l, a) : l \in {x \in ArgLists(n - 1) : Len(x) = n - 1}, a \in ArgTexts}

EntryFunctions == FunctionNames \cup {<<"H", "S", "L">>, <<"M", "i", "x">>}

EntryTexts == {Call(f, args) : f \in EntryFunctions, args \in ArgLists(MaxArgs)}

EntryPalettes == {<<>>, <<[key |-> <<"a">>, color |-> RgbColor_parse_from_hex(T_red).v]>>}

EntryHues == {NoHues,
              SomeHues([x \in {<<"h">>} |-> F32FromInt(120)]),
              SomeHues([x \in {<<"h">>} |-> F32FromInt(400)])}

InitEntry ==
    /\ parsed = <<>>
    /\ pc = "entry"
    /\ idx = 1
    /\ palette = <<>>
    /\ highlights = <<>>
    /\ globals = <<>>
    /\ result = NoResult
    /\ color = NoColor
    /\ last = NoLast
    /\ steps = 0
    /\ arg \in [value : EntryTexts, palette : EntryPalettes, hues : EntryHues]
    /\ ret = NoResult

\* The call has returned: ret holds its Ok or Err.
Called == ret.ok \/ ret.e.kind # "not returned"

ParseEntry ==
    /\ pc = "entry"
    /\ ~Called
    /\ ret' = parse_palette_entry(arg.value, arg.palette, arg.hues)
    /\ UNCHANGED <<themeVars, colorVars, arg>>

NextEntry == ParseEntry

SpecEntry == InitEntry /\ [][NextEntry]_vars

\* The number of comma-separated arguments of a definition c matched: one
\* more than the commas between its parentheses.
ArgCount(c) == 1 + Cardinality({i \in 1..Len(c.args) : c.args[i] = ","})

ExpectedCount(name) ==
    IF name = <<"h", "s", "l">> THEN 3
    ELSE IF name = <<"a", "d", "j", "u", "s", "t">> THEN 3
    ELSE IF name = <<"l", "i", "g", "h", "t", "e", "n">> THEN 2
    ELSE IF name = <<"d", "a", "r", "k", "e", "n">> THEN 2
    ELSE 3

CountMismatch(c) == c.some /\ ArgCount(c) # ExpectedCount(c.name)

\* C8: a definition of the form hsl(..), adjust(..), lighten(..),
\* darken(..) or mix(..), the name in any case, whose number of
\* comma-separated arguments is not the expected one (hsl 3, adjust 3,
\* lighten 2, darken 2, mix 3) fails with ThemeError::InvalidColor naming
\* the original definition string.
C8_ArgumentCount ==
    (pc = "entry" /\ Called /\ CountMismatch(captures(arg.value)))
        => /\ ~ret.ok
           /\ ret.e.kind = "ThemeError::InvalidColor"
           /\ ret.e.found = arg.value

\* The hue name of an hsl definition with three arguments, the first of
\* them starting with "$": the text after the "$".
HueRefOf(c) ==
    IF c.some /\ c.name = <<"h", "s", "l">> /\ ArgCount(c) = 3
          /\ starts_with(trim(split(c.args, ",")[1]), "$")
    THEN [some |-> TRUE, name |-> Tail(trim(split(c.args, ",")[1]))]
    ELSE [some |-> FALSE, name |-> <<>>]

HueRef == HueRefOf(captures(arg.value))

\* C9: for hsl($name, s, l), a theme without a hue table fails with
\* ThemeError::MissingHueSection, a hue table without name fails with
\* ThemeError::MissingHue, both naming name; and a colour is built only
\* when the table holds name, its hue being the table's degrees over 360.
C9_HueLookup ==
    (pc = "entry" /\ Called /\ HueRef.some)
        => /\ ~arg.hues.some
                 => /\ ~ret.ok
                    /\ ret.e.kind = "ThemeError::MissingHueSection"
                    /\ ret.e.found = HueRef.name
           /\ (arg.hues.some /\ HueRef.name \notin DOMAIN arg.hues.map)
                 => /\ ~ret.ok
                    /\ ret.e.kind = "ThemeError::MissingHue"
                    /\ ret.e.found = HueRef.name
           /\ (arg.hues.some /\ HueRef.name \in DOMAIN arg.hues.map)
                 => \/ ret.ok
                    \/ ret.e.kind \notin {"ThemeError::MissingHueSection",
                                          "ThemeError::MissingHue"}
           /\ ret.ok
                 => /\ arg.hues.some
                    /\ HueRef.name \in DOMAIN arg.hues.map
                    /\ ret.v.t = "Hsl"
                    /\ ret.v.hue = F32Div(arg.hues.map[HueRef.name], F32_360)

\* A hue table that lacks the name has been consulted.
C9_Witness ==
    /\ pc = "entry"
    /\ Called
    /\ HueRef.some
    /\ arg.hues.some
    /\ ~ret.ok
    /\ ret.e.kind = "ThemeError::MissingHue"
    /\ ret.e.found = <<"x">>

(***************************************************************************)
(* highlight.rs: parse_highlight called on one directive (specification    *)
(* SpecHighlight).  A directive is written from a list of tokens and the   *)
(* run of spaces put between them.                                         *)
(***************************************************************************)
MaxTokens == 5

Tokens == {<<"a">>, <<"-">>, <<"z">>, <<"b", "i">>,
           <<"l", "i", "n", "k", ":", "C">>,
           <<"x", "l", "i", "n", "k", ":", "C">>}

RECURSIVE TokenLists(_)
TokenLists(n) ==
    IF n = 0 THEN {<<>>}
    ELSE TokenLists(n - 1) \cup
         {Append(l, a) : l \in {x \in TokenLists(n - 1) : Len(x) = n - 1}, a \in Tokens}

Spaces == {<<" ">>, <<" ", " ">>}

HighlightPalette == <<[key |-> <<"a">>, color |-> RgbColor_parse_from_hex(T_red).v]>>

HighlightPalettes == {<<>>, HighlightPalette}

Directive(tokens, sep, pal) ==
    [hl_group |-> <<"G">>, value |-> concat_with(tokens, sep), tokens |-> tokens,
     palette |-> pal]

InitHighlight ==
    /\ parsed = <<>>
    /\ pc = "highlight"
    /\ idx = 1
    /\ palette = <<>>
    /\ highlights = <<>>
    /\ globals = <<>>
    /\ result = NoResult
    /\ color = NoColor
    /\ last = NoLast
    /\ steps = 0
    /\ \E tokens \in TokenLists(MaxTokens), sep \in Spaces, pal \in HighlightPalettes :
          arg = Directive(tokens, sep, pal)
    /\ ret = NoResult

ParseHighlight ==
    /\ pc = "highlight"
    /\ ~Called
    /\ ret' = parse_highlight(arg.hl_group, arg.value, arg.palette)
    /\ UNCHANGED <<themeVars, colorVars, arg>>

NextHighlight == ParseHighlight

SpecHighlight == InitHighlight /\ [][NextHighlight]_vars

\* The colour positions among n tokens read as fg, bg, style, special.
ColourPositions(n) == {1, 2, 4} \cap 1..n

\* The token at a colour position is neither "-" nor a palette name.
UnknownColour(token, pal) == token # <<"-">> /\ ~contains_key(pal, token)

\* The four characters the rendered line holds after the fragment that
\* opens a colour field.
FieldText(text, fragment) ==
    SubSeq(text, (CHOOSE i \in 1..Len(text) : text[i] = fragment) + 1,
                 (CHOOSE i \in 1..Len(text) : text[i] = fragment) + 4)

FieldOpening(p) ==
    IF p = 1 THEN "\", { fg = \"" ELSE IF p = 2 THEN "\", bg = \"" ELSE "\", sp = \""

IsStyle(token) == \A i \in 1..Len(token) : token[i] \in {"b", "i", "-"}

\* A directive of one token that contains "link:".
IsLink(tokens) == Len(tokens) = 1 /\ contains(tokens[1], LinkPrefix)

\* What the directive's tokens require of the result, the link directive
\* taken as the exception when exceptLink holds.
HighlightContract(tokens, pal, r, exceptLink) ==
    /\ Len(tokens) \notin 1..4
          => ~r.ok /\ r.e.kind = "ThemeError::InvalidHighlight"
    /\ (Len(tokens) \in 1..4 /\ ~(exceptLink /\ IsLink(tokens)))
          => /\ (\E p \in ColourPositions(Len(tokens)) : UnknownColour(tokens[p], pal))
                   => ~r.ok /\ r.e.kind = "ThemeError::MissingColor"
             /\ r.ok => \A p \in ColourPositions(Len(tokens)) :
                            tokens[p] = <<"-">>
                                => FieldText(r.v, FieldOpening(p)) = <<"N", "O", "N", "E">>
             /\ (/\ \A p \in ColourPositions(Len(tokens)) : tokens[p] = <<"-">>
                 /\ Len(tokens) >= 3 => IsStyle(tokens[3]))
                   => r.ok

\* C10 as stated: the directive is split on spaces and empty tokens are
\* discarded; a token count outside 1..4 fails with
\* ThemeError::InvalidHighlight; with 1 to 4 tokens read as fg, bg, style,
\* special, a colour token "-" renders as NONE without a palette lookup and
\* any other colour token must be a palette name, the directive failing
\* with ThemeError::MissingColor otherwise.
C10_AsStated ==
    (pc = "highlight" /\ Called)
        => HighlightContract(arg.tokens, arg.palette, ret, FALSE)

\* C10, amended: as stated, except that a directive of a single token
\* containing "link:" is not a colour directive: its token is not looked up
\* in the palette and the directive succeeds.
C10_ColourTokens ==
    (pc = "highlight" /\ Called)
        => /\ HighlightContract(arg.tokens, arg.palette, ret, TRUE)
           /\ IsLink(arg.tokens) => ret.ok

\* A directive of four tokens written with double spaces, its bg "-", has
\* been rendered.
C10_Witness ==
    /\ pc = "highlight"
    /\ Called
    /\ ret.ok
    /\ arg.tokens = << <<"a">>, <<"-">>, <<"b", "i">>, <<"-">> >>
    /\ Len(arg.value) = 11

\* The text of s after the first occurrence of pat, s containing pat.
AfterFirst(s, pat) ==
    SubSeq(s,
           (CHOOSE i \in 1..(Len(s) - Len(pat) + 1) :
               /\ SubSeq(s, i, i + Len(pat) - 1) = pat
               /\ \A j \in 1..(i - 1) : SubSeq(s, j, j + Len(pat) - 1) # pat) + Len(pat),
           Len(s))

\* The line of a link directive for a group and a target.
LinkLine(hl_group, target) ==
    <<"\n    hl(0, \"">> \o hl_group \o <<"\", { link = \"">> \o target \o <<"\" })">>

\* C11: a directive of a single token that contains "link:" compiles,
\* whatever the palette holds, to a link directive whose target is the text
\* after "link:", verbatim.
C11_LinkTarget ==
    (pc = "highlight" /\ Called /\ IsLink(arg.tokens))
        => /\ ret.ok
           /\ ret.v = LinkLine(arg.hl_group, AfterFirst(arg.tokens[1], LinkPrefix))

(***************************************************************************)
(* highlight.rs: parse_style_options called on one style token             *)
(* (specification SpecStyle).                                              *)
(***************************************************************************)
MaxStyleLen == 3

StyleChars == {"b", "i", "u", "c", "d", "t", "h", "o", "s", "n", "r", "-", "z"}

RECURSIVE StyleTexts(_)
StyleTexts(n) ==
    IF n = 0 THEN {<<>>}
    ELSE StyleTexts(n - 1) \cup
         {Append(l, a) : l \in {x \in StyleTexts(n - 1) : Len(x) = n - 1},
                         a \in StyleChars}

InitStyle ==
    /\ parsed = <<>>
    /\ pc = "style"
    /\ idx = 1
    /\ palette = <<>>
    /\ highlights = <<>>
    /\ globals = <<>>
    /\ result = NoResult
    /\ color = NoColor
    /\ last = NoLast
    /\ steps = 0
    /\ arg \in StyleTexts(MaxStyleLen)
    /\ ret = NoResult

ParseStyle ==
    /\ pc = "style"
    /\ ~Called
    /\ ret' = parse_style_options(arg)
    /\ UNCHANGED <<themeVars, colorVars, arg>>

NextStyle == ParseStyle

SpecStyle == InitStyle /\ [][NextStyle]_vars

\* The assignment each of the 11 flag characters stands for.
AttributeOf(ch) ==
    CASE ch = "b" -> "bold = true"
      [] ch = "i" -> "italic = true"
      [] ch = "u" -> "underline = true"
      [] ch = "c" -> "undercurl = true"
      [] ch = "d" -> "underdouble = true"
      [] ch = "t" -> "underdotted = true"
      [] ch = "h" -> "underdashed = true"
      [] ch = "o" -> "standout = true"
      [] ch = "s" -> "strikethrough = true"
      [] ch = "n" -> "nocombine = true"
      [] ch = "r" -> "reverse = true"

FlagChars == {"b", "i", "u", "c", "d", "t", "h", "o", "s", "n", "r"}

IsFlag(ch) == ch \in FlagChars

\* The assignments of the flag characters of a style, one per occurrence, in
\* the order of the style.
AttributesOf(flags) == [i \in 1..Len(flags) |-> AttributeOf(flags[i])]

\* text is the list of assignments joined by ", ".
IsJoinOf(text, list) ==
    /\ Len(text) = IF list = <<>> THEN 0 ELSE 2 * Len(list) - 1
    /\ \A i \in 1..Len(text) :
          text[i] = IF i % 2 = 1 THEN list[(i + 1) \div 2] ELSE ", "

\* The first character of a style that is neither a flag nor "-".
FirstUnknown(style) ==
    style[CHOOSE i \in 1..Len(style) :
            /\ style[i] \notin FlagChars \cup {"-"}
            /\ \A j \in 1..(i - 1) : style[j] \in FlagChars \cup {"-"}]

\* The first character of a style that is not a flag.
FirstNonFlag(style) ==
    style[CHOOSE i \in 1..Len(style) :
            /\ style[i] \notin FlagChars
            /\ \A j \in 1..(i - 1) : style[j] \in FlagChars]

\* C12 as stated: parse_style_options turns every flag character of the
\* style (b, i, u, c, d, t, h, o, s, n, r) into its "attribute = true"
\* assignment, in the order of the style and once per occurrence; the
\* token "-" gives no attributes; a character outside the 11 flags fails
\* with ThemeError::UnknownStyleOption naming it, and gives no text.
C12_AsStated ==
    (pc = "style" /\ Called)
        => IF arg = <<"-">>
           THEN ret.ok /\ ret.v = <<>>
           ELSE IF \A i \in 1..Len(arg) : arg[i] \in FlagChars
           THEN /\ ret.ok
                /\ IsJoinOf(ret.v, AttributesOf(arg))
           ELSE /\ ~ret.ok
                /\ ret.e.kind = "ThemeError::UnknownStyleOption"
                /\ ret.e.found = <<FirstNonFlag(arg)>>

\* C12, amended: as stated, except that the character "-" is skipped
\* wherever it stands in the style, so that only a character outside the
\* 11 flags and "-" fails, with ThemeError::UnknownStyleOption naming the
\* first such character.
C12_StyleOptions ==
    (pc = "style" /\ Called)
        => IF \A i \in 1..Len(arg) : arg[i] \in FlagChars \cup {"-"}
           THEN /\ ret.ok
                /\ IsJoinOf(ret.v, AttributesOf(SelectSeq(arg, IsFlag)))
           ELSE /\ ~ret.ok
                /\ ret.e.kind = "ThemeError::UnknownStyleOption"
                /\ ret.e.found = <<FirstUnknown(arg)>>

\* A style with a repeated flag has been rendered, the flag twice.
C12_Witness ==
    /\ pc = "style"
    /\ Called
    /\ arg = <<"t", "b", "t">>
    /\ ret.ok
    /\ ret.v = <<"underdotted = true", ", ", "bold = true", ", ", "underdotted = true">>

(***************************************************************************)
(* RgbColor::parse_from_hex on its own: a text, with or without the        *)
(* leading "#", of up to MaxHexLen further characters.                     *)
(***************************************************************************)
MaxHexLen == 7

HexChars == {"0", "a", "F", "g", ArabicThree}

HexHeads == {<<>>, <<"#">>}

HexBodies == UNION {[1..n -> HexChars] : n \in 0..MaxHexLen}

InitHex ==
    /\ parsed = <<>>
    /\ pc = "hex"
    /\ idx = 1
    /\ palette = <<>>
    /\ highlights = <<>>
    /\ globals = <<>>
    /\ result = NoResult
    /\ color = NoColor
    /\ last = NoLast
    /\ steps = 0
    /\ \E h \in HexHeads, body \in HexBodies : arg = h \o body
    /\ ret = NoResult

ParseHex ==
    /\ pc = "hex"
    /\ ~Called
    /\ ret' = RgbColor_parse_from_hex(arg)
    /\ UNCHANGED <<themeVars, colorVars, arg>>

NextHex == ParseHex

SpecHex == InitHex /\ [][NextHex]_vars

\* "#" followed by 6 hexadecimal digits, upper or lower case.
IsHexText(x) ==
    /\ Len(x) = 7
    /\ x[1] = "#"
    /\ \A i \in 2..7 : IsAsciiHex(x[i])

\* C13: parse_from_hex accepts exactly the texts of 7 characters made of
\* "#" and 6 hexadecimal digits, the colour it gives being rendered as the
\* text in lower case, and fails with RgbColorError::Format on every other
\* text.
C13_HexFormat ==
    (pc = "hex" /\ Called)
        => IF IsHexText(arg)
           THEN /\ ret.ok
                /\ RgbColor_fmt(ret.v) = to_lowercase(arg)
           ELSE /\ ~ret.ok
                /\ ret.e.kind = "RgbColorError::Format"
                /\ ret.e.found = arg

\* The part of C13 that the code keeps: a text of "#" and 6 hexadecimal
\* digits is accepted and rendered back in lower case, and a text that is
\* accepted is of that form.
C13_AcceptedTexts ==
    (pc = "hex" /\ Called)
        => /\ IsHexText(arg) => (ret.ok /\ RgbColor_fmt(ret.v) = to_lowercase(arg))
           /\ ret.ok => IsHexText(arg)

====
